---- MODULE Spec2Model ----
(***************************************************************************)
(* The Bcut speech-recognition client of src/asr.go and src/asr_base.go:   *)
(* BcutASR.GetResult and the steps it runs (cache check, upload            *)
(* negotiation, part PUTs, commit, task creation, the poll loop of         *)
(* queryResult, makeSegments, cache write).                                *)
(*                                                                         *)
(* One action is one step of GetResult between two network round trips:    *)
(* it issues the request, takes the response (drawn from the outcomes the  *)
(* code distinguishes) and runs the code up to the next request or to the  *)
(* return.  The poll iteration is split at the only place where the caller *)
(* can interleave: between the context check and the GET.                  *)
(*                                                                         *)
(* Times are integer milliseconds (TimeOffset 0.105 s = 105 ms), sleeps    *)
(* are integer seconds.  Strings the server hands out (keys, URLs, etags)  *)
(* are tuples of integers, the empty string is <<>>.                       *)
(***************************************************************************)
EXTENDS Integers, Sequences, FiniteSets, TLC

\* ---------------------------------------------------------------- constants
MaxRetries == 500
TimeOffsetMs == 105
RetryBaseDelay == 1
RetryLongDelay == 3
StateDone == 4
StateFailed == 3

\* ------------------------------------------------------------------- bounds
MaxCalls == 2
MaxFileLen == 3
MaxPerSize == 2
MaxUrls == 2
MaxParts == 4
MaxUpdates == 2
MaxFaults == 2

\* -------------------------------------------------------------------- data
EmptyStr == <<>>

Min(a, b) == IF a < b THEN a ELSE b

\* The audio file's path (a byte string) and the file contents of the model.
AudioPath == <<9>>

FileOfLen(n) == [k \in 1..n |-> k]

FileA == FileOfLen(MaxFileLen)

\* FileA with its last byte changed.
FileB == [FileA EXCEPT ![MaxFileLen] = 0]

Files == {FileOfLen(n) : n \in 0..MaxFileLen} \cup {FileB}

\* A second path, one byte longer than AudioPath, and a file that holds FileA
\* without its first byte.
LongerPath == AudioPath \o <<FileA[1]>>

Paths == {AudioPath, LongerPath}

ShorterFile == Tail(FileA)

KeyFiles == {FileA, ShorterFile}

\* GetCacheKey: serviceName + "_" + hex(md5(path ++ bytes)).  The digest is
\* kept as the byte string it is taken of (md5 idealised as collision free).
\* Mutant: the digest is taken of the path alone.
GetCacheKeyOfPath(serviceName, path, bytes) == <<serviceName, path>>

GetCacheKey(serviceName, path, bytes) == <<serviceName, path \o bytes>>

CacheKeys ==
    {GetCacheKey(n, p, f) : n \in {"BcutASR", "MockASR"}, p \in Paths,
                            f \in Files \cup KeyFiles}

\* A provider utterance as the decoded JSON value: obj is FALSE for an entry
\* that is not a JSON object; hasX is FALSE when field X is missing or of the
\* wrong type.
Utt(t, s, e) ==
    [obj |-> TRUE, hasText |-> TRUE, text |-> t,
     hasStart |-> TRUE, start |-> s, hasEnd |-> TRUE, end |-> e]

NonObjectUtt ==
    [obj |-> FALSE, hasText |-> FALSE, text |-> "",
     hasStart |-> FALSE, start |-> 0, hasEnd |-> FALSE, end |-> 0]

NoTimesUtt ==
    [obj |-> TRUE, hasText |-> TRUE, text |-> "b",
     hasStart |-> FALSE, start |-> 0, hasEnd |-> FALSE, end |-> 0]

\* The parsed result payloads the poll endpoint may deliver: utterances is
\* "list", "notList" (present, not an array) or "absent".
PayloadHi == [utterances |-> "list", list |-> <<Utt("hi", 0, 500)>>]

PayloadMixed ==
    [utterances |-> "list",
     list |-> <<Utt("a", 1000, 3500), NonObjectUtt, NoTimesUtt>>]

PayloadTwo ==
    [utterances |-> "list", list |-> <<Utt("a", 1000, 3500), Utt("b", 3500, 4000)>>]

PayloadEmptyList == [utterances |-> "list", list |-> <<>>]

PayloadNoUtterances == [utterances |-> "absent", list |-> <<>>]

PayloadNotList == [utterances |-> "notList", list |-> <<>>]

Payloads ==
    {PayloadHi, PayloadMixed, PayloadTwo, PayloadEmptyList, PayloadNoUtterances,
     PayloadNotList}

Segment(t, s, e) == [text |-> t, start_time |-> s, end_time |-> e]

\* Mutant: the offset is left out.
OffsetTimeNone(ms) == ms

\* ms/1000.0 + TimeOffset, kept in milliseconds.
OffsetTime(ms) == ms + TimeOffsetMs

\* makeSegments: every entry that is a JSON object yields a segment; a field
\* that is missing or mistyped reads as its zero value ("" or 0).
RECURSIVE SegmentsOf(_)
SegmentsOf(us) ==
    IF us = <<>> THEN <<>>
    ELSE LET u == Head(us)
             seg == Segment(IF u.hasText THEN u.text ELSE "",
                            OffsetTime(IF u.hasStart THEN u.start ELSE 0),
                            OffsetTime(IF u.hasEnd THEN u.end ELSE 0))
         IN (IF u.obj THEN <<seg>> ELSE <<>>) \o SegmentsOf(Tail(us))

makeSegments(result) ==
    IF result.utterances # "list" THEN <<>> ELSE SegmentsOf(result.list)

\* A cache file: absent, unreadable or unparsable ("corrupt"), or a JSON array
\* of segments.
NoEntry == [kind |-> "absent", segs |-> <<>>]

CorruptEntry == [kind |-> "corrupt", segs |-> <<>>]

FileEntry(segs) == [kind |-> "segments", segs |-> segs]

\* Mutant: a file that cannot be read or parsed loads as an empty list.
LoadFromCacheLenient(store, cacheKey) ==
    IF store[cacheKey].kind = "absent"
    THEN [ok |-> FALSE, segs |-> <<>>]
    ELSE [ok |-> TRUE, segs |-> store[cacheKey].segs]

\* LoadFromCache: (segments, ok).
LoadFromCache(store, cacheKey) ==
    IF store[cacheKey].kind = "segments"
    THEN [ok |-> TRUE, segs |-> store[cacheKey].segs]
    ELSE [ok |-> FALSE, segs |-> <<>>]

\* Mutant: an empty segment list is written to the cache too.
ShouldSaveEmpty(uc, segs) == uc

\* GetResult's condition for writing the cache after a successful run.
ShouldSave(uc, segs) == uc /\ Len(segs) > 0

\* Mutant: the write reports success and leaves no file.
SaveToCacheLost(store, cacheKey, segs, how) == store

\* SaveToCache: the write succeeds ("ok"), fails before the file is touched
\* ("failClean"), or fails after the file was truncated ("failPartial").
SaveOutcomes == {"ok", "failClean", "failPartial"}

SaveToCache(store, cacheKey, segs, how) ==
    CASE how = "ok" -> [store EXCEPT ![cacheKey] = FileEntry(segs)]
      [] how = "failPartial" -> [store EXCEPT ![cacheKey] = CorruptEntry]
      [] OTHER -> store

\* Errors and return values.  phase is the wrap GetResult adds.
NoErr == [phase |-> "none", detail |-> "", code |-> -1]

Err(phase, detail) == [phase |-> phase, detail |-> detail, code |-> -1]

ErrCode(phase, detail, code) == [phase |-> phase, detail |-> detail, code |-> code]

NoRet == [set |-> FALSE, err |-> NoErr, isNil |-> TRUE, segs |-> <<>>]

RetOk(segs) == [set |-> TRUE, err |-> NoErr, isNil |-> FALSE, segs |-> segs]

\* Mutant: an error is returned along with an empty, non-nil slice.
RetErrWithSlice(e) == [set |-> TRUE, err |-> e, isNil |-> FALSE, segs |-> <<>>]

RetErr(e) == [set |-> TRUE, err |-> e, isNil |-> TRUE, segs |-> <<>>]

\* Mutant: a failed cache write fails the call.
ResultAfterSaveStrict(segs, how) ==
    IF how \in {"failClean", "failPartial"}
    THEN RetErr(Err("CacheWriteFailed", how))
    ELSE RetOk(segs)

\* What GetResult returns after its cache write went as how ("none": no
\* write): SaveToCache's error is logged, not returned.
ResultAfterSave(segs, how) == RetOk(segs)

\* Mutant: every error is wrapped as an upload failure.
WrapAlwaysUpload(step) == "UploadFailed"

\* The wrap GetResult puts around the error of the step that failed.
Wrap(step) ==
    CASE step \in {"requestUpload", "uploadParts", "commitUpload"} -> "UploadFailed"
      [] step = "createTask" -> "TaskCreationFailed"
      [] OTHER -> "QueryFailed"

\* The model ids and the request payloads.
ModelIDUpload == "8"

ModelIDQuery == "7"

RequestUploadPayload(size) ==
    [type |-> 2, name |-> "audio.mp3", size |-> size, ResourceFileType |-> "mp3",
     model_id |-> ModelIDUpload]

\* Mutant: the poll carries the upload's model id.
QueryParamsUploadModel(taskID) == [model_id |-> ModelIDUpload, task_id |-> taskID]

\* The query string of a poll: ?model_id=7&task_id=<taskID>.
QueryParams(taskID) == [model_id |-> ModelIDQuery, task_id |-> taskID]

\* Strings the server hands out in call c.
BossKey(c) == <<1, c>>

ResourceId(c) == <<2, c>>

UploadId(c) == <<3, c>>

DownloadUrl(c) == <<4, c>>

TaskId(c) == <<5, c>>

UploadUrl(c, k) == <<6, c, k>>

EtagOf(url) == <<7>> \o Tail(url)

Comma == <<0>>

\* buildEtags: the etags joined by commas, in index order.
RECURSIVE JoinFrom(_, _)
JoinFrom(etags, k) ==
    IF k > Len(etags) THEN EmptyStr
    ELSE (IF k > 1 THEN Comma ELSE EmptyStr) \o etags[k] \o JoinFrom(etags, k + 1)

\* Mutant: a comma after every etag, the last included.
buildEtagsTrailingComma(etags) ==
    JoinFrom(etags, 1) \o (IF etags = <<>> THEN EmptyStr ELSE Comma)

buildEtags(etags) == JoinFrom(etags, 1)

\* Mutant: an etag is stored in the first slot still empty.
StoreEtagNextFree(es, k, etag) ==
    LET free == {j \in 1..Len(es) : es[j] = EmptyStr}
    IN IF free = {} THEN es
       ELSE [es EXCEPT ![CHOOSE j \in free : \A m \in free : j <= m] = etag]

\* uploadParts: b.etags[k] = etag (k 0-based).
StoreEtag(es, k, etag) == [es EXCEPT ![k + 1] = etag]

\* The poll loop's continuation test, back-off and progress value.
\* Mutant: the loop runs one iteration too many.
LoopCondOffByOne(n) == n <= MaxRetries

LoopCond(n) == n < MaxRetries

\* Mutant: the back-off steps up one iteration early.
SleepDurationEarly(n) ==
    IF n >= 50 THEN RetryLongDelay
    ELSE IF n >= 20 THEN RetryBaseDelay * 2
    ELSE RetryBaseDelay

SleepDuration(n) ==
    IF n > 50 THEN RetryLongDelay
    ELSE IF n > 20 THEN RetryBaseDelay * 2
    ELSE RetryBaseDelay

\* Mutant: a transient error backs off like a pending state.
TransientSleepStepped(n) == SleepDuration(n)

\* The sleep of iteration n after a transient error.
TransientSleep(n) == RetryBaseDelay

\* Mutant: progress is reported on every pending iteration.
CallbackDueAlways(n) == TRUE

\* queryResult: whether a pending iteration n reports progress.
CallbackDue(n) == n % 5 = 0

\* Mutant: the poll loop's progress starts again from zero.
PollProgressFromZero(n) == Min((n * 39) \div MaxRetries, 99)

\* queryResult: the percentage reported by iteration n.  The code computes
\* int(float64(n)/500*39); n*39/500 is an integer only for n = 0 when
\* 0 <= n < 500, so the truncated float product equals the integer quotient.
PollProgress(n) == Min(60 + (n * 39) \div MaxRetries, 99)


\* A Go slice expression s[lo:hi] on a slice of length n aborts the process
\* unless 0 <= lo <= hi <= n.
SliceOk(lo, hi, n) == 0 <= lo /\ lo <= hi /\ hi <= n

\* uploadParts: the byte range of part k (0-based) of a file of length n.
PartStart(k, size) == k * size

\* Mutant: the clip is one byte short of the file.
PartEndShort(k, size, n) == Min((k + 1) * size, n - 1)

PartEnd(k, size, n) == Min((k + 1) * size, n)

\* ---------------------------------------------------------------- variables
VARIABLES
    \* the BcutASR instance (BaseASR fields, then the upload session fields)
    audioPath, FileBinary, UseCache,
    taskID, etags, inBossKey, resourceID, uploadID, uploadURLs, perSize, clips,
    downloadURL,
    \* the cache directory: cache key -> file
    cache,
    \* the caller: whether it passes a callback, how many calls it makes, the
    \* context of the running call ("live" or "canceled")
    hasCallback, budget, ctx,
    \* which copy of the client runs: "asr" (src/asr.go) or "main" (the copy
    \* in src/main.go, whose response parsing skips a missing field)
    variant,
    \* the provider: its slicing of an upload (per_size and the number of
    \* upload_urls) and how its recognition jobs behave when polled
    srv, provider,
    \* the running GetResult call: its position, its cacheKey, the upload
    \* loop's and the poll loop's index, its return value
    pc, calls, cacheKey, part, i, ret,
    \* the previous call: its return value, its cache key, how its cache write
    \* went
    prev, prevKey, prevSave,
    \* the bytes the running call's instance read, and those of the call before;
    \* the context as the running call was given it; the path of the running
    \* call's instance, and that of the call before
    callFile, prevFile, callCtx, callPath, prevPath,
    \* what the running call did so far: the cache directory as it found it,
    \* requests sent per endpoint, the PUTs, the commit and task bodies, the
    \* task id polled, the last poll's answer, polls sent on a canceled
    \* context, whether every poll answered state 0, the sleep the last poll
    \* iteration ended with (s), the first and the last percentage given to the
    \* callback and the number of its invocations, how the cache write went
    \* (reqBody: the negotiation body; pollQuery: the last poll's query string)
    cache0, sent, puts, reqBody, commitBody, taskBody, pollTask, pollQuery, answer,
    pollsAfterCancel, onlyState0, lastSleep, cbFirst, cbLast, cbCount, saveHow,
    \* the transient answers a "flaky" provider gave to the call's polls
    faults,
    \* the response to the call's last single-shot request (negotiation, part
    \* PUT, commit, task creation): the step, the case it falls in, the part
    \* or URL index it concerns
    reply

\* The HTTP server of src/main.go: its AI configuration (field -> the version
\* of the configuration the field's value belongs to), the POST /api/config
\* handler (position, the version it decoded, the fields it has stored), and
\* an AI summarize or chat handler (position, and its AISummarizer's copy of
\* the configuration, -1 for a field not copied yet).
VARIABLES aiConfig, pcConfig, config, stored, pcSummarize, aiSummarizer

httpVars == <<aiConfig, pcConfig, config, stored, pcSummarize, aiSummarizer>>

instVars == <<audioPath, FileBinary, UseCache>>

sessVars ==
    <<taskID, etags, inBossKey, resourceID, uploadID, uploadURLs, perSize, clips,
      downloadURL>>

envVars == <<hasCallback, budget, srv, provider, variant, httpVars>>

prevVars == <<prev, prevKey, prevSave, callFile, prevFile, callCtx, callPath, prevPath>>

pollVars ==
    <<pollTask, pollQuery, answer, pollsAfterCancel, onlyState0, lastSleep, faults>>

vars ==
    <<instVars, sessVars, envVars, prevVars, pollVars, cache, ctx, pc, calls,
      cacheKey, part, i, ret, cache0, sent, puts, reqBody, commitBody, taskBody, cbFirst,
      cbLast, cbCount, saveHow, reply>>

NoReply == [step |-> "none", out |-> "", index |-> -1]

Reply(step, out, index) == [step |-> step, out |-> out, index |-> index]

NoSent == [reqUpload |-> 0, put |-> 0, commit |-> 0, createTask |-> 0, query |-> 0]

NoReqBody ==
    [type |-> 0, name |-> "", size |-> 0, ResourceFileType |-> "", model_id |-> ""]

NoCommitBody ==
    [set |-> FALSE, InBossKey |-> EmptyStr, ResourceId |-> EmptyStr,
     Etags |-> EmptyStr, UploadId |-> EmptyStr, model_id |-> ""]

NoTaskBody == [set |-> FALSE, resource |-> EmptyStr, model_id |-> ""]

NoQuery == [model_id |-> "", task_id |-> EmptyStr]

\* Mutant: the cache is never consulted.
CacheHitNever(uc, store, key) == FALSE

\* Mutant: the cache is consulted whether caching is enabled or not.
CacheHitIgnoresFlag(uc, store, key) == LoadFromCache(store, key).ok

\* GetResult's cache test.
CacheHit(uc, store, key) == uc /\ LoadFromCache(store, key).ok

\* An entry a previous successful run of the pipeline wrote.
StoredEntry == FileEntry(makeSegments(PayloadHi))

EmptyCache == [k \in CacheKeys |-> NoEntry]

\* The slicing a well-behaved provider answers for FileA.
DefaultSrv == [perSize |-> 2, nUrls |-> (Len(FileA) + 1) \div 2]

\* The poll answers the code tells apart.  A transient answer is one the loop
\* logs and retries; a state answer carries the numeric state and, for state
\* 4, the result field: "missing" (absent or not a string), "empty",
\* "unparsable", or "json" with the parsed payload.
TransientKinds == {"netFail", "readFail", "badJSON", "noData", "noState"}

PollStates == 0..4

NoResult == [kind |-> "missing", payload |-> PayloadNoUtterances]

NoAnswer == [kind |-> "none", state |-> -1, result |-> NoResult]

ResultFields ==
    {[kind |-> k, payload |-> PayloadNoUtterances] :
        k \in {"missing", "empty", "unparsable"}}
    \cup {[kind |-> "json", payload |-> p] : p \in Payloads}

PollOutcomes ==
    {[kind |-> k, state |-> -1, result |-> NoResult] : k \in TransientKinds}
    \cup {[kind |-> "state", state |-> s, result |-> NoResult] :
            s \in PollStates \ {StateDone}}
    \cup {[kind |-> "state", state |-> StateDone, result |-> r] : r \in ResultFields}

\* The answers a provider of the given behaviour may give to one poll, after
\* n transient answers.
Answers(p, n) ==
    CASE p = "prompt" ->
           {o \in PollOutcomes : o.kind = "state" /\ o.state \in {StateFailed, StateDone}}
      [] p = "flaky" /\ n >= MaxFaults -> {o \in PollOutcomes : o.kind = "state"}
      [] OTHER -> PollOutcomes

\* Mutants: the state tests compare with the wrong state.
IsDoneOnState2(state) == state = 2

IsFailedNever(state) == FALSE

\* queryResult's tests on a poll answer.
IsDone(state) == state = StateDone

IsFailed(state) == state = StateFailed

\* Mutant: an empty result string is not rejected.
ResultErrorOfAcceptsEmpty(r) ==
    CASE r.kind = "missing" -> "EmptyResult"
      [] r.kind = "unparsable" -> "ResultParse"
      [] OTHER -> ""

\* Mutant: a parsed result without an utterances list is rejected.
ResultErrorOfNeedsUtterances(r) ==
    CASE r.kind \in {"missing", "empty"} -> "EmptyResult"
      [] r.kind = "unparsable" -> "ResultParse"
      [] r.payload.utterances # "list" -> "ResultParse"
      [] OTHER -> ""

\* The error a state-4 answer's result field gives, "" when it parses.
ResultErrorOf(r) ==
    CASE r.kind \in {"missing", "empty"} -> "EmptyResult"
      [] r.kind = "unparsable" -> "ResultParse"
      [] OTHER -> ""

\* Mutant: a state the client does not know is taken for a failure.
ClassifyUnknownStateFails(out) ==
    CASE out.kind \in TransientKinds -> "transient"
      [] IsDone(out.state) ->
           IF ResultErrorOf(out.result) # "" THEN "badResult" ELSE "done"
      [] IsFailed(out.state) \/ out.state \in {1, 2} -> "failed"
      [] OTHER -> "pending"

\* What queryResult does with an answer: "transient" and "pending" go on to
\* the next iteration, the others return.
Classify(out) ==
    CASE out.kind \in TransientKinds -> "transient"
      [] IsDone(out.state) ->
           IF ResultErrorOf(out.result) # "" THEN "badResult" ELSE "done"
      [] IsFailed(out.state) -> "failed"
      [] OTHER -> "pending"

\* Mutant: the cache is written before the poll answer is examined.
SavesCacheOnAnyAnswer(c, uc, segs) == uc /\ c # "transient"

\* Whether GetResult reaches its cache write after a poll answer of class c.
SavesCache(c, uc, segs) == c = "done" /\ ShouldSave(uc, segs)

\* upload: what follows an accepted negotiation answer with n upload URLs.
AfterRequestUpload(n) == IF 0 < n THEN "uploadParts" ELSE "commitUpload"

\* Mutant: the part loop stops after its first part.
AfterPartFirstOnly(k, n) == "commitUpload"

\* uploadParts: what follows part k (0-based) of n.
AfterPart(k, n) == IF k + 1 < n THEN "uploadParts" ELSE "commitUpload"

\* ---------------------------------------------------------------------- Init
\* The state after NewBcutASR, before the first GetResult.  Three families of
\* runs are explored: one call against a provider whose poll answers are
\* arbitrary (the poll loop in full), one call against every slicing and file
\* length (the upload in full), and a sequence of calls sharing the cache
\* directory.  With a callback the arbitrary provider is "flaky": at most
\* MaxFaults of its answers to one call's polls are transient ones.  In the
\* last two families the provider's job is "prompt": finished or failed when
\* first polled.
InitPollRuns ==
    /\ audioPath = AudioPath /\ FileBinary = FileA /\ UseCache = TRUE
    /\ cache \in {EmptyCache,
                  [EmptyCache EXCEPT ![GetCacheKey("BcutASR", AudioPath, FileA)] =
                      StoredEntry]}
    /\ hasCallback \in BOOLEAN /\ budget = 1 /\ srv = DefaultSrv
    /\ provider = IF hasCallback THEN "flaky" ELSE "any"

InitUploadRuns ==
    /\ audioPath = AudioPath /\ FileBinary \in Files /\ UseCache = TRUE
    /\ cache = EmptyCache
    /\ hasCallback = FALSE /\ budget = 1
    /\ srv \in [perSize : 0..MaxPerSize, nUrls : 0..MaxUrls]
    /\ provider = "prompt"

InitCacheRuns ==
    /\ audioPath = AudioPath /\ FileBinary = FileA /\ UseCache \in BOOLEAN
    /\ cache \in {[EmptyCache EXCEPT ![GetCacheKey("BcutASR", AudioPath, FileA)] = e] :
                    e \in {NoEntry, CorruptEntry, StoredEntry}}
    /\ hasCallback = FALSE /\ budget = MaxCalls /\ srv = DefaultSrv
    /\ provider = "prompt"

\* type AIConfig: its fields, and version n of the configuration.
ConfigFields == {"APIKey", "APIURL", "Model", "CustomPrompt"}

ConfigOf(n) == [f \in ConfigFields |-> n]

NoCopy == [f \in ConfigFields |-> -1]

\* NewHTTPServer: the configuration of the start, no request in progress.
NewHTTPServer ==
    /\ aiConfig = ConfigOf(0)
    /\ pcConfig = "idle" /\ config = 0 /\ stored = {}
    /\ pcSummarize = "idle" /\ aiSummarizer = NoCopy

\* The zero-valued session and the empty history, for copy v of the client.
InitState(v) ==
    /\ NewHTTPServer
    /\ variant = v /\ reply = NoReply
    /\ taskID = EmptyStr /\ etags = <<>> /\ inBossKey = EmptyStr
    /\ resourceID = EmptyStr /\ uploadID = EmptyStr /\ uploadURLs = <<>>
    /\ perSize = 0 /\ clips = 0 /\ downloadURL = EmptyStr
    /\ ctx = "live" /\ pc = "idle" /\ calls = 0 /\ part = 0 /\ i = 0
    /\ cacheKey = EmptyStr /\ ret = NoRet
    /\ prev = NoRet /\ prevKey = EmptyStr /\ prevSave = "none"
    /\ callFile = <<>> /\ prevFile = <<>> /\ callCtx = "live"
    /\ callPath = <<>> /\ prevPath = <<>>
    /\ cache0 = cache /\ sent = NoSent /\ puts = <<>>
    /\ reqBody = NoReqBody /\ commitBody = NoCommitBody /\ taskBody = NoTaskBody
    /\ pollTask = EmptyStr /\ pollQuery = NoQuery /\ answer = NoAnswer /\ pollsAfterCancel = 0
    /\ onlyState0 = TRUE /\ lastSleep = 0 /\ cbFirst = -1 /\ cbLast = -1 /\ cbCount = 0
    /\ saveHow = "none" /\ faults = 0

Init ==
    /\ InitPollRuns \/ InitUploadRuns \/ InitCacheRuns
    /\ InitState("asr")

\* The upload runs and the call sequences of the copy of the client in
\* src/main.go; its poll loop is the one of src/asr.go.
InitMain ==
    /\ InitUploadRuns \/ InitCacheRuns
    /\ InitState("main")

\* ------------------------------------------------------------------- helpers
\* callback(v, ...) when the callback is not nil.
Callback(v) ==
    /\ cbFirst' = IF hasCallback /\ cbFirst = -1 THEN v ELSE cbFirst
    /\ cbLast' = IF hasCallback THEN v ELSE cbLast
    /\ cbCount' = IF hasCallback THEN cbCount + 1 ELSE cbCount

NoCallback == UNCHANGED <<cbFirst, cbLast, cbCount>>

Return(r) == pc' = "returned" /\ ret' = r

InCall ==
    pc \in {"requestUpload", "uploadParts", "commitUpload", "createTask",
            "pollCheck", "pollRequest"}

\* ------------------------------------------------------------------- actions
\* NewBcutASR: the caller builds another instance, on the same file or on the
\* file with one byte changed; the session fields start as zero values.
Flip(f) == IF f = FileA THEN FileB ELSE IF f = FileB THEN FileA ELSE f

\* NewBcutASR(path, useCache) on a path whose file holds the bytes f: the
\* BaseASR fields, and the zero-valued session.
NewBaseASR(path, f) ==
    /\ pc = "returned" /\ calls < budget
    /\ audioPath' = path /\ FileBinary' = f
    /\ taskID' = EmptyStr /\ etags' = <<>> /\ inBossKey' = EmptyStr
    /\ resourceID' = EmptyStr /\ uploadID' = EmptyStr /\ uploadURLs' = <<>>
    /\ perSize' = 0 /\ clips' = 0 /\ downloadURL' = EmptyStr
    /\ pc' = "idle"
    /\ UNCHANGED <<UseCache, envVars, prevVars, pollVars, cache, ctx, calls,
                   cacheKey, part, i, ret, cache0, sent, puts, commitBody,
                   taskBody, reqBody, cbFirst, cbLast, cbCount, saveHow, reply>>

\* A new instance on the same path, whose file is as it was or has a byte
\* changed.
NewBcutASR == \E f \in {FileBinary, Flip(FileBinary)} : NewBaseASR(audioPath, f)

\* A new instance on any path, with any content.
NewBcutASRAt == \E path \in Paths, f \in KeyFiles : NewBaseASR(path, f)

\* GetResult up to its first request: the cache check, and on a miss the
\* callback(20).
GetResult ==
    /\ pc \in {"idle", "returned"} /\ calls < budget
    /\ calls' = calls + 1
    /\ \E c \in {"live", "canceled"} : ctx' = c /\ callCtx' = c
    /\ prev' = ret /\ prevKey' = cacheKey /\ prevSave' = saveHow
    /\ callFile' = FileBinary /\ prevFile' = callFile
    /\ callPath' = audioPath /\ prevPath' = callPath
    /\ cacheKey' = GetCacheKey("BcutASR", audioPath, FileBinary)
    /\ cache0' = cache
    /\ part' = 0 /\ i' = 0 /\ sent' = NoSent /\ puts' = <<>>
    /\ reqBody' = NoReqBody /\ commitBody' = NoCommitBody /\ taskBody' = NoTaskBody
    /\ pollTask' = EmptyStr /\ pollQuery' = NoQuery /\ answer' = NoAnswer /\ pollsAfterCancel' = 0
    /\ onlyState0' = TRUE /\ lastSleep' = 0 /\ saveHow' = "none" /\ faults' = 0
    /\ reply' = NoReply
    /\ IF CacheHit(UseCache, cache, cacheKey')
       THEN /\ cbFirst' = (IF hasCallback THEN 100 ELSE -1)
            /\ cbLast' = cbFirst'
            /\ cbCount' = (IF hasCallback THEN 1 ELSE 0)
            /\ Return(RetOk(LoadFromCache(cache, cacheKey').segs))
       ELSE /\ cbFirst' = (IF hasCallback THEN 20 ELSE -1)
            /\ cbLast' = cbFirst'
            /\ cbCount' = (IF hasCallback THEN 1 ELSE 0)
            /\ pc' = "requestUpload" /\ ret' = NoRet
    /\ UNCHANGED <<instVars, sessVars, envVars, cache>>

\* The caller cancels the context of the running call.
Cancel ==
    /\ (InCall \/ pc = "mockStep") /\ ctx = "live"
    /\ ctx' = "canceled"
    /\ UNCHANGED <<instVars, sessVars, envVars, prevVars, pollVars, cache, pc,
                   calls, cacheKey, part, i, ret, cache0, sent, puts, commitBody,
                   taskBody, reqBody, cbFirst, cbLast, cbCount, saveHow, reply>>

\* requestUpload, and on success the start of uploadParts (etags allocated,
\* loop index 0).  The response is drawn from the cases the code tells apart;
\* the fields are assigned in the order the code checks them, so a response
\* that fails at one field has already overwritten the fields before it.
ReqUploadOutcomes ==
    {"netFail", "readFail", "badJSON", "noData", "in_boss_key", "resource_id",
     "upload_id", "per_size", "upload_urls", "upload_urls_elem", "ok"}

\* How many fields of the response the code has stored when it stops.
FieldsStored(out) ==
    CASE out \in {"netFail", "readFail", "badJSON", "noData", "in_boss_key"} -> 0
      [] out = "resource_id" -> 1
      [] out = "upload_id" -> 2
      [] out = "per_size" -> 3
      [] out \in {"upload_urls", "upload_urls_elem"} -> 4
      [] OTHER -> 5

\* The responses a step returns an error for.  The copy in src/main.go has no
\* else branch on a scalar field or on an element of upload_urls.
NoDataOutcomes == {"netFail", "readFail", "badJSON", "noData"}

\* Mutant: the parsing of src/main.go in every copy.
RejectsAsMain(v, out) == out \in NoDataOutcomes \cup {"upload_urls"}

Rejects(v, out) ==
    IF v = "asr" THEN out # "ok" ELSE out \in NoDataOutcomes \cup {"upload_urls"}

\* Whether requestUpload assigns the k-th scalar field (in_boss_key,
\* resource_id, upload_id, per_size) of a response of case out.
FieldName(k) == <<"in_boss_key", "resource_id", "upload_id", "per_size">>[k]

Stores(v, out, k) ==
    IF v = "asr" THEN FieldsStored(out) >= k
    ELSE out \notin NoDataOutcomes /\ out # FieldName(k)

RequestUploadAs(out, bad) ==
    /\ inBossKey' = IF Stores(variant, out, 1) THEN BossKey(calls) ELSE inBossKey
    /\ resourceID' = IF Stores(variant, out, 2) THEN ResourceId(calls) ELSE resourceID
    /\ uploadID' = IF Stores(variant, out, 3) THEN UploadId(calls) ELSE uploadID
    /\ perSize' = IF Stores(variant, out, 4) THEN srv.perSize ELSE perSize
    /\ uploadURLs' =
          CASE out \in NoDataOutcomes \cup {"upload_urls"} -> uploadURLs
            [] out = "upload_urls_elem" ->
                 [k \in 1..srv.nUrls |->
                     IF k < bad \/ (k > bad /\ variant # "asr")
                     THEN UploadUrl(calls, k) ELSE EmptyStr]
            [] ~Rejects(variant, out) -> [k \in 1..srv.nUrls |-> UploadUrl(calls, k)]
            [] OTHER -> uploadURLs
    /\ clips' = IF Rejects(variant, out) THEN clips ELSE srv.nUrls
    /\ reply' = Reply("requestUpload", out, IF out = "upload_urls_elem" THEN bad - 1 ELSE -1)
    /\ IF ~Rejects(variant, out)
       THEN /\ etags' = [k \in 1..srv.nUrls |-> EmptyStr]
            /\ part' = 0
            /\ pc' = AfterRequestUpload(srv.nUrls)
            /\ UNCHANGED ret
       ELSE /\ Return(RetErr(ErrCode(Wrap("requestUpload"), out,
                                     IF out = "upload_urls_elem" THEN bad - 1 ELSE -1)))
            /\ UNCHANGED <<etags, part>>

RequestUpload ==
    /\ pc = "requestUpload"
    /\ sent' = [sent EXCEPT !.reqUpload = @ + 1]
    /\ reqBody' = RequestUploadPayload(Len(FileBinary))
    /\ \/ \E out \in ReqUploadOutcomes \ {"upload_urls_elem"} : RequestUploadAs(out, 0)
       \/ \E bad \in 1..srv.nUrls : RequestUploadAs("upload_urls_elem", bad)
    /\ UNCHANGED <<instVars, taskID, downloadURL, envVars, prevVars, pollVars,
                   cache, ctx, calls, cacheKey, i, cache0, puts, commitBody,
                   taskBody, cbFirst, cbLast, cbCount, saveHow>>

\* One iteration of uploadParts: the slice, the PUT, the etag from the header
\* or from the body; after the last part, the loop ends and commitUpload is
\* next.  A slice out of bounds aborts the process.
PartOutcomes == {"netFail", "etagHeader", "etagBody", "noEtag"}

\* The body of the loop for part k; an accepted part leaves the loop at
\* position nextPart, with the step named after to follow.
PutPart(k, nextPart, after) ==
    LET lo == PartStart(k, perSize)
        hi == PartEnd(k, perSize, Len(FileBinary))
        url == uploadURLs[k + 1]
    IN IF ~SliceOk(lo, hi, Len(FileBinary))
       THEN /\ pc' = "panic"
            /\ UNCHANGED <<sent, puts, etags, part, ret, reply>>
       ELSE IF url = EmptyStr
       THEN \* no scheme, no host: client.Do fails before anything is sent
            /\ Return(RetErr(Err(Wrap("uploadParts"), "sendFailed")))
            /\ reply' = Reply("uploadParts", "netFail", k)
            /\ UNCHANGED <<sent, puts, etags, part>>
       ELSE /\ sent' = [sent EXCEPT !.put = @ + 1]
            /\ puts' = Append(puts, [url |-> url, index |-> k, lo |-> lo,
                                     hi |-> hi,
                                     body |-> SubSeq(FileBinary, lo + 1, hi)])
            /\ \E out \in PartOutcomes :
                  /\ reply' = Reply("uploadParts", out, k)
                  /\ CASE out = "netFail" ->
                           /\ Return(RetErr(Err(Wrap("uploadParts"), "sendFailed")))
                           /\ UNCHANGED <<etags, part>>
                      [] out = "noEtag" ->
                           /\ Return(RetErr(ErrCode(Wrap("uploadParts"), "partNoEtag", k)))
                           /\ UNCHANGED <<etags, part>>
                      [] OTHER ->
                           /\ etags' = StoreEtag(etags, k, EtagOf(url))
                           /\ part' = nextPart
                           /\ pc' = after
                           /\ UNCHANGED ret

UploadPart ==
    /\ pc = "uploadParts"
    /\ PutPart(part, part + 1, AfterPart(part, clips))
    /\ UNCHANGED <<instVars, taskID, inBossKey, resourceID, uploadID, uploadURLs,
                   perSize, clips, downloadURL, envVars, prevVars, pollVars,
                   cache, ctx, calls, cacheKey, i, cache0, commitBody, taskBody,
                   reqBody,
                   cbFirst, cbLast, cbCount, saveHow>>

\* commitUpload, and on success GetResult's callback(50).
CommitOutcomes == {"netFail", "readFail", "badJSON", "noData", "download_url", "ok"}

CommitUpload ==
    /\ pc = "commitUpload"
    /\ sent' = [sent EXCEPT !.commit = @ + 1]
    /\ commitBody' = [set |-> TRUE, InBossKey |-> inBossKey,
                      ResourceId |-> resourceID, Etags |-> buildEtags(etags),
                      UploadId |-> uploadID, model_id |-> ModelIDUpload]
    /\ \E out \in CommitOutcomes :
          /\ reply' = Reply("commitUpload", out, -1)
          /\ IF ~Rejects(variant, out)
             THEN /\ downloadURL' = IF out = "ok" THEN DownloadUrl(calls) ELSE downloadURL
                  /\ Callback(50)
                  /\ pc' = "createTask"
                  /\ UNCHANGED ret
             ELSE /\ Return(RetErr(Err(Wrap("commitUpload"), out)))
                  /\ NoCallback
                  /\ UNCHANGED downloadURL
    /\ UNCHANGED <<instVars, taskID, etags, inBossKey, resourceID, uploadID,
                   uploadURLs, perSize, clips, envVars, prevVars, pollVars,
                   cache, ctx, calls, cacheKey, part, i, cache0, puts, taskBody,
                   reqBody,
                   saveHow>>

\* createTask, and on success GetResult's callback(60) and the start of
\* queryResult's loop.
TaskOutcomes == {"netFail", "readFail", "badJSON", "noData", "task_id", "ok"}

CreateTask ==
    /\ pc = "createTask"
    /\ sent' = [sent EXCEPT !.createTask = @ + 1]
    /\ taskBody' = [set |-> TRUE, resource |-> downloadURL,
                    model_id |-> ModelIDUpload]
    /\ \E out \in TaskOutcomes :
          /\ reply' = Reply("createTask", out, -1)
          /\ IF ~Rejects(variant, out)
             THEN /\ taskID' = IF out = "ok" THEN TaskId(calls) ELSE taskID
                  /\ Callback(60)
                  /\ pc' = "pollCheck" /\ i' = 0
                  /\ UNCHANGED ret
             ELSE /\ Return(RetErr(Err(Wrap("createTask"), out)))
                  /\ NoCallback
                  /\ UNCHANGED <<taskID, i>>
    /\ UNCHANGED <<instVars, etags, inBossKey, resourceID, uploadID, uploadURLs,
                   perSize, clips, downloadURL, envVars, prevVars, pollVars,
                   cache, ctx, calls, cacheKey, part, cache0, puts, commitBody,
                   reqBody, saveHow>>

\* Mutant: the loop never looks at the context.
PollCheckNoCtx ==
    /\ pc = "pollCheck"
    /\ IF ~LoopCond(i)
       THEN Return(RetErr(Err(Wrap("queryResult"), "PollTimeout")))
       ELSE pc' = "pollRequest" /\ UNCHANGED ret
    /\ UNCHANGED <<instVars, sessVars, envVars, prevVars, pollVars, cache, ctx,
                   calls, cacheKey, part, i, cache0, sent, puts, commitBody,
                   taskBody, reqBody, cbFirst, cbLast, cbCount, saveHow, reply>>

\* The head of a poll iteration: the loop condition, then the context check.
PollCheck ==
    /\ pc = "pollCheck"
    /\ IF ~LoopCond(i)
       THEN Return(RetErr(Err(Wrap("queryResult"), "PollTimeout")))
       ELSE IF ctx = "canceled"
       THEN Return(RetErr(Err(Wrap("queryResult"), "Canceled")))
       ELSE pc' = "pollRequest" /\ UNCHANGED ret
    /\ UNCHANGED <<instVars, sessVars, envVars, prevVars, pollVars, cache, ctx,
                   calls, cacheKey, part, i, cache0, sent, puts, commitBody,
                   taskBody, reqBody, cbFirst, cbLast, cbCount, saveHow, reply>>

\* The rest of a poll iteration: the GET, the answer, and then the sleep and
\* the loop increment, or the return.  A parsed result goes through the rest
\* of GetResult: makeSegments, callback(100), the cache write, the return.
PollRequestAs(out) ==
    LET c == Classify(out)
        segments == IF c = "done" THEN makeSegments(out.result.payload) ELSE <<>>
    IN /\ IF SavesCache(c, UseCache, segments)
          THEN \E how \in SaveOutcomes :
                  /\ cache' = SaveToCache(cache, cacheKey, segments, how)
                  /\ saveHow' = how
          ELSE UNCHANGED <<cache, saveHow>>
       /\ CASE c = "transient" ->
                 /\ lastSleep' = TransientSleep(i)
                 /\ i' = i + 1 /\ pc' = "pollCheck"
                 /\ onlyState0' = FALSE
                 /\ NoCallback
                 /\ UNCHANGED ret
            [] c = "pending" ->
                 /\ IF CallbackDue(i) THEN Callback(PollProgress(i)) ELSE NoCallback
                 /\ lastSleep' = SleepDuration(i)
                 /\ i' = i + 1 /\ pc' = "pollCheck"
                 /\ onlyState0' = (onlyState0 /\ out.state = 0)
                 /\ UNCHANGED ret
            [] c = "badResult" ->
                 /\ Return(RetErr(Err(Wrap("queryResult"), ResultErrorOf(out.result))))
                 /\ onlyState0' = FALSE /\ lastSleep' = 0
                 /\ NoCallback
                 /\ UNCHANGED i
            [] c = "failed" ->
                 /\ Return(RetErr(ErrCode(Wrap("queryResult"), "RemoteTaskFailed", out.state)))
                 /\ onlyState0' = FALSE /\ lastSleep' = 0
                 /\ NoCallback
                 /\ UNCHANGED i
            [] OTHER ->
                 /\ Callback(100)
                 /\ Return(ResultAfterSave(segments, saveHow'))
                 /\ onlyState0' = FALSE /\ lastSleep' = 0
                 /\ UNCHANGED i

PollRequest ==
    /\ pc = "pollRequest"
    /\ sent' = [sent EXCEPT !.query = @ + 1]
    /\ pollTask' = taskID
    /\ pollQuery' = QueryParams(taskID)
    /\ pollsAfterCancel' = pollsAfterCancel + (IF ctx = "canceled" THEN 1 ELSE 0)
    /\ \E out \in Answers(provider, faults) :
          /\ PollRequestAs(out)
          /\ answer' = out
          /\ faults' = faults + (IF provider = "flaky" /\ out.kind \in TransientKinds
                                 THEN 1 ELSE 0)
    /\ UNCHANGED <<instVars, sessVars, envVars, prevVars, ctx, calls, cacheKey,
                   part, cache0, puts, commitBody, taskBody, reqBody, reply>>

Next ==
    \/ NewBcutASR
    \/ GetResult
    \/ Cancel
    \/ RequestUpload
    \/ UploadPart
    \/ CommitUpload
    \/ CreateTask
    \/ PollCheck
    \/ PollRequest

Spec == Init /\ [][Next]_vars

SpecMain == InitMain /\ [][Next]_vars

\* A call in progress takes its next step: every request returns, with a
\* response or an error, at the latest on the client's 30 s timeout, and every
\* sleep ends.  Nothing is assumed of the caller (NewBcutASR, GetResult,
\* Cancel).
CallStep ==
    RequestUpload \/ UploadPart \/ CommitUpload \/ CreateTask \/ PollCheck \/ PollRequest

\* ----------------------------------------------------- instances on two paths
\* Calls on instances of different paths and files that share the cache
\* directory.
InitKeyRuns ==
    /\ audioPath \in Paths /\ FileBinary \in KeyFiles /\ UseCache = TRUE
    /\ cache = EmptyCache
    /\ hasCallback = FALSE /\ budget = MaxCalls /\ srv = DefaultSrv
    /\ provider = "prompt"

InitKeys ==
    /\ InitKeyRuns
    /\ InitState("asr")

NextKeys ==
    \/ NewBcutASRAt
    \/ GetResult
    \/ CallStep

SpecKeys == InitKeys /\ [][NextKeys]_vars

\* ------------------------------------------------- the AI configuration
\* The handlers of the HTTP server run on a goroutine per request, and the
\* configuration is a plain struct field read and written without a lock.  A
\* struct assignment or copy moves its four string fields one after another;
\* the order is the compiler's, so any order is taken.
asrVars ==
    <<instVars, sessVars, hasCallback, budget, srv, provider, variant, prevVars,
      pollVars, cache, ctx, pc, calls, cacheKey, part, i, ret, cache0, sent,
      puts, reqBody, commitBody, taskBody, cbFirst, cbLast, cbCount, saveHow,
      reply>>

\* handleConfig, POST: the body is decoded into config.
HandleConfig ==
    /\ pcConfig = "idle" /\ config < MaxUpdates
    /\ config' = config + 1 /\ stored' = {} /\ pcConfig' = "assign"
    /\ UNCHANGED <<asrVars, aiConfig, pcSummarize, aiSummarizer>>

\* s.aiConfig = config, one field; after the last one the handler responds.
AssignField ==
    /\ pcConfig = "assign"
    /\ \E f \in ConfigFields \ stored :
          /\ stored' = stored \cup {f}
          /\ aiConfig' = [aiConfig EXCEPT ![f] = config]
          /\ pcConfig' = IF stored' = ConfigFields THEN "idle" ELSE "assign"
    /\ UNCHANGED <<asrVars, config, pcSummarize, aiSummarizer>>

\* handleAISummarize or handleAIChat, up to the call of NewAISummarizer.
HandleAISummarize ==
    /\ pcSummarize = "idle"
    /\ pcSummarize' = "copy" /\ aiSummarizer' = NoCopy
    /\ UNCHANGED <<asrVars, aiConfig, pcConfig, config, stored>>

\* NewAISummarizer(s.aiConfig), one field of the argument's copy.
CopyField ==
    /\ pcSummarize = "copy"
    /\ \E f \in {g \in ConfigFields : aiSummarizer[g] = -1} :
          /\ aiSummarizer' = [aiSummarizer EXCEPT ![f] = aiConfig[f]]
          /\ pcSummarize' = IF \A g \in ConfigFields : aiSummarizer'[g] # -1
                            THEN "summarize" ELSE "copy"
    /\ UNCHANGED <<asrVars, aiConfig, pcConfig, config, stored>>

\* Summarize or Chat with the copied configuration, and the response.
Summarize ==
    /\ pcSummarize = "summarize"
    /\ pcSummarize' = "idle"
    /\ UNCHANGED <<asrVars, aiConfig, pcConfig, config, stored, aiSummarizer>>

InitConfig ==
    /\ audioPath = AudioPath /\ FileBinary = FileA /\ UseCache = TRUE
    /\ cache = EmptyCache
    /\ hasCallback = FALSE /\ budget = 0 /\ srv = DefaultSrv
    /\ provider = "prompt"
    /\ InitState("main")

NextConfig ==
    \/ HandleConfig
    \/ AssignField
    \/ HandleAISummarize
    \/ CopyField
    \/ Summarize

SpecConfig == InitConfig /\ [][NextConfig]_vars

\* ------------------------------------------------------------- MockBcutASR
\* The mock service of src/test.go: no network; five simulated steps, each a
\* context check, a progress callback and a sleep, then three fixed segments.
MockPercents == <<20, 50, 60, 75, 90>>

MockSegments ==
    <<Segment("welcome", 500, 3200), Segment("test audio", 3500, 7100),
      Segment("by timestamp", 7500, 10800)>>

\* Mutant: the context is checked before the first step only.
MockChecksCtxFirstOnly(k) == k = 0

\* Whether the loop checks the context before step k (0-based).
MockChecksCtx(k) == TRUE

InitMockRuns ==
    /\ audioPath = AudioPath /\ FileBinary = FileA /\ UseCache \in BOOLEAN
    /\ cache \in {[EmptyCache EXCEPT ![GetCacheKey("MockASR", AudioPath, FileA)] = e] :
                    e \in {NoEntry, CorruptEntry}}
    /\ hasCallback \in BOOLEAN /\ budget = MaxCalls /\ srv = DefaultSrv
    /\ provider = "prompt"

InitMock ==
    /\ InitMockRuns
    /\ InitState("asr")

\* NewMockBcutASR on the same path, whose file is as it was or has a byte
\* changed.
NewMockBcutASR == \E f \in {FileBinary, Flip(FileBinary)} : NewBaseASR(audioPath, f)

\* MockBcutASR.GetResult up to its loop: the cache check.
MockGetResult ==
    /\ pc \in {"idle", "returned"} /\ calls < budget
    /\ calls' = calls + 1
    /\ \E c \in {"live", "canceled"} : ctx' = c /\ callCtx' = c
    /\ prev' = ret /\ prevKey' = cacheKey /\ prevSave' = saveHow
    /\ callFile' = FileBinary /\ prevFile' = callFile
    /\ callPath' = audioPath /\ prevPath' = callPath
    /\ cacheKey' = GetCacheKey("MockASR", audioPath, FileBinary)
    /\ cache0' = cache
    /\ i' = 0 /\ saveHow' = "none"
    /\ IF CacheHit(UseCache, cache, cacheKey')
       THEN /\ cbFirst' = (IF hasCallback THEN 100 ELSE -1)
            /\ cbLast' = cbFirst'
            /\ cbCount' = (IF hasCallback THEN 1 ELSE 0)
            /\ Return(RetOk(LoadFromCache(cache, cacheKey').segs))
       ELSE /\ cbFirst' = -1 /\ cbLast' = -1 /\ cbCount' = 0
            /\ pc' = "mockStep" /\ ret' = NoRet
    /\ UNCHANGED <<instVars, sessVars, envVars, pollVars, cache, part, sent, puts,
                   reqBody, commitBody, taskBody, reply>>

\* One iteration of the loop over the steps: the context check, the callback,
\* the sleep.
MockStep ==
    /\ pc = "mockStep" /\ i < Len(MockPercents)
    /\ IF MockChecksCtx(i) /\ ctx = "canceled"
       THEN /\ Return(RetErr(Err("none", "Canceled")))
            /\ NoCallback
            /\ UNCHANGED i
       ELSE /\ Callback(MockPercents[i + 1])
            /\ i' = i + 1
            /\ UNCHANGED <<pc, ret>>
    /\ UNCHANGED <<instVars, sessVars, envVars, prevVars, pollVars, cache, ctx,
                   calls, cacheKey, part, cache0, sent, puts, reqBody, commitBody,
                   taskBody, saveHow, reply>>

\* After the loop: the segments, the cache write whose error is dropped, the
\* callback(100), the return.
MockFinish ==
    /\ pc = "mockStep" /\ i = Len(MockPercents)
    /\ IF UseCache
       THEN \E how \in SaveOutcomes :
               /\ cache' = SaveToCache(cache, cacheKey, MockSegments, how)
               /\ saveHow' = how
       ELSE UNCHANGED <<cache, saveHow>>
    /\ Callback(100)
    /\ Return(RetOk(MockSegments))
    /\ UNCHANGED <<instVars, sessVars, envVars, prevVars, pollVars, ctx, calls,
                   cacheKey, part, i, cache0, sent, puts, reqBody, commitBody,
                   taskBody, reply>>

NextMock ==
    \/ NewMockBcutASR
    \/ MockGetResult
    \/ Cancel
    \/ MockStep
    \/ MockFinish

SpecMock == InitMock /\ [][NextMock]_vars

SpecLive == Init /\ [][Next]_vars /\ WF_vars(CallStep)

\* ------------------------------------------------- parts in any network order
\* The loop of uploadParts with its iterations run side by side: every part is
\* PUT once, the PUTs complete in any order, each completion runs the loop
\* body for its own index, and buildEtags follows when all have completed.
InitParallelRuns ==
    /\ audioPath = AudioPath /\ FileBinary \in Files /\ UseCache = TRUE
    /\ cache = EmptyCache
    /\ hasCallback = FALSE /\ budget = 1
    /\ srv \in [perSize : 0..1, nUrls : 1..MaxParts]
    /\ provider = "prompt"

InitParallel ==
    /\ InitParallelRuns
    /\ InitState("asr")

\* The indices of the parts whose PUT has completed.
Completed == {puts[j].index : j \in 1..Len(puts)}

PartCompletes ==
    /\ pc = "uploadParts"
    /\ \E k \in (0..clips - 1) \ Completed : PutPart(k, part, "uploadParts")
    /\ UNCHANGED <<instVars, taskID, inBossKey, resourceID, uploadID, uploadURLs,
                   perSize, clips, downloadURL, envVars, prevVars, pollVars,
                   cache, ctx, calls, cacheKey, i, cache0, commitBody, taskBody,
                   reqBody,
                   cbFirst, cbLast, cbCount, saveHow>>

PartsJoined ==
    /\ pc = "uploadParts"
    /\ Completed = 0..clips - 1
    /\ pc' = "commitUpload"
    /\ commitBody' = [set |-> TRUE, InBossKey |-> inBossKey,
                      ResourceId |-> resourceID, Etags |-> buildEtags(etags),
                      UploadId |-> uploadID, model_id |-> ModelIDUpload]
    /\ UNCHANGED <<instVars, sessVars, envVars, prevVars, pollVars, cache, ctx,
                   calls, cacheKey, part, i, ret, cache0, sent, puts, reqBody,
                   taskBody, cbFirst, cbLast, cbCount, saveHow, reply>>

NextParallel ==
    \/ GetResult
    \/ RequestUpload
    \/ PartCompletes
    \/ PartsJoined

SpecParallel == InitParallel /\ [][NextParallel]_vars

\* -------------------------------------------------------------------- claims
\* C1: in one GetResult call queryResult sends at most MaxRetries = 500 poll
\* requests, whatever the answers: every poll sent, answered by a transient
\* error or by a pending state alike, advances the one loop counter i.
C1_PollBudget ==
    /\ sent.query <= 500
    /\ pc \in {"pollCheck", "pollRequest"} => sent.query = i

\* The 500th poll of a call was answered by a transient error.
C1_Witness ==
    /\ sent.query = 500 /\ pc = "pollCheck"
    /\ answer.kind \in TransientKinds

\* C2: with the context never canceled and every poll answered state 0, the
\* call ends only by the poll-timeout error after exactly 500 polls, and the
\* sleep after iteration n is 1 s for n in 0..20, 2 s for 21..50, 3 s for
\* 51..499.
C2_AlwaysPending ==
    (onlyState0 /\ ctx = "live" /\ sent.query > 0) =>
        /\ pc \in {"pollCheck", "pollRequest", "returned"}
        /\ lastSleep = (IF i - 1 <= 20 THEN 1 ELSE IF i - 1 <= 50 THEN 2 ELSE 3)
        /\ pc = "returned" =>
              /\ ret = RetErr(Err("QueryFailed", "PollTimeout"))
              /\ sent.query = 500

C2_Witness ==
    /\ pc = "returned" /\ onlyState0 /\ ctx = "live"
    /\ ret.err.detail = "PollTimeout" /\ sent.query = 500 /\ lastSleep = 3

\* C3: a poll answered state 4 with a parsable result ends the call at that
\* poll with the mapped payload and a nil error; answered so on the first
\* poll with the one utterance ("hi", 0 ms, 500 ms), GetResult returns the one
\* segment ("hi", 105 ms, 605 ms) after exactly one poll.
C3_DoneReturns ==
    (pc # "idle" /\ answer.kind = "state" /\ answer.state = 4
        /\ answer.result.kind = "json") =>
        /\ pc = "returned"
        /\ ret = RetOk(makeSegments(answer.result.payload))
        /\ sent.query = i + 1
        /\ (i = 0 /\ answer.result.payload =
                        [utterances |-> "list", list |-> <<Utt("hi", 0, 500)>>]) =>
              /\ ret.segs = <<Segment("hi", 105, 605)>>
              /\ sent.query = 1

C3_Witness ==
    /\ pc = "returned" /\ answer.state = 4 /\ answer.result.payload = PayloadHi
    /\ answer.result.kind = "json"
    /\ sent.query = 1 /\ ret.segs = <<Segment("hi", 105, 605)>> /\ ret.err = NoErr

\* C4: a poll answered state 3, on any iteration, ends the call at that poll
\* with the remote-task-failed error carrying state 3; the cache is not
\* written.
C4_FailedIsFatal ==
    (pc # "idle" /\ answer.kind = "state" /\ answer.state = 3) =>
        /\ pc = "returned"
        /\ ret = RetErr(ErrCode("QueryFailed", "RemoteTaskFailed", 3))
        /\ sent.query = i + 1
        /\ cache = cache0 /\ saveHow = "none"

C4_Witness ==
    /\ pc = "returned" /\ answer.kind = "state" /\ answer.state = 3
    /\ i = 499 /\ sent.query = 500 /\ ret.err.code = 3

\* C5: a poll answered state 4 whose result is missing, not a string, empty
\* or unparsable ends the call at that poll with an error; the polls left in
\* the budget are not sent.
C5_BadResultIsFatal ==
    (pc # "idle" /\ answer.kind = "state" /\ answer.state = 4
        /\ answer.result.kind # "json") =>
        /\ pc = "returned"
        /\ ret = RetErr(Err("QueryFailed",
                            IF answer.result.kind = "unparsable"
                            THEN "ResultParse" ELSE "EmptyResult"))
        /\ sent.query = i + 1
        /\ cache = cache0

C5_Witness ==
    /\ pc = "returned" /\ answer.state = 4 /\ answer.result.kind = "empty"
    /\ sent.query = 3 /\ ret.err.detail = "EmptyResult"

\* C6: at most one poll is sent on a canceled context, and a poll iteration
\* that begins with the context canceled returns the Canceled error with no
\* segments and without sending a poll.
C6_Cancellation ==
    /\ [](pollsAfterCancel <= 1)
    /\ [][(pc = "pollCheck" /\ ctx = "canceled" /\ i < 500) =>
             /\ pc' = "returned"
             /\ ret' = RetErr(Err("QueryFailed", "Canceled"))
             /\ ret'.isNil /\ ret'.segs = <<>>
             /\ sent' = sent]_vars

\* The context was canceled between an iteration's check and its GET: that
\* poll was sent, and the next iteration returned Canceled.
C6_Witness ==
    /\ pc = "returned" /\ ret.err.detail = "Canceled"
    /\ pollsAfterCancel = 1 /\ sent.query = 4

\* C7: with caching enabled and a readable, parsable entry under the call's
\* cache key, GetResult returns that entry, gives the callback 100 and nothing
\* else, and sends no request to any endpoint.
C7_CacheHit ==
    (pc # "idle" /\ UseCache /\ cache0[cacheKey].kind = "segments") =>
        /\ pc = "returned"
        /\ ret = RetOk(cache0[cacheKey].segs)
        /\ sent = NoSent /\ puts = <<>>
        /\ cbFirst = (IF hasCallback THEN 100 ELSE -1) /\ cbLast = cbFirst
        /\ cache = cache0

C7_Witness ==
    /\ pc = "returned" /\ hasCallback /\ cbFirst = 100 /\ cbLast = 100
    /\ sent = NoSent /\ ret = RetOk(<<Segment("hi", 105, 605)>>)

C9_NothingCachedOnError ==
    /\ (pc = "returned" /\ ret.err # NoErr) => cache = cache0
    /\ (calls >= 2 /\ pc # "idle" /\ prevKey = cacheKey
           /\ prev.set /\ prev.err # NoErr) =>
          (pc = "requestUpload" /\ sent = NoSent) \/ sent.reqUpload = 1

\* The first call failed at task creation, after its upload; the second call
\* has sent its own negotiation request.
C9_Witness ==
    /\ calls = 2 /\ UseCache /\ prevKey = cacheKey
    /\ prev.err.phase = "TaskCreationFailed"
    /\ sent.reqUpload = 1 /\ cache = cache0

\* C10: on a cache miss the requests go out in strict sequence: each part PUT
\* after the accepted negotiation and after the accepted PUTs of the parts
\* before it, in index order; the commit after every part's accepted PUT; the
\* task creation after the accepted commit; the polls after the accepted task
\* creation.  No endpoint but the part URLs and the poll is requested twice.
C10_StrictSequence ==
    pc # "idle" =>
        /\ sent.reqUpload <= 1 /\ sent.commit <= 1 /\ sent.createTask <= 1
        /\ Len(puts) = sent.put
        /\ sent.put > 0 =>
              /\ sent.reqUpload = 1
              /\ sent.put <= clips
              /\ uploadURLs = [k \in 1..clips |-> UploadUrl(calls, k)]
        /\ \A k \in 1..Len(puts) :
              /\ puts[k].index = k - 1
              /\ puts[k].url = UploadUrl(calls, k)
              /\ k < Len(puts) => etags[k] = EtagOf(UploadUrl(calls, k))
        /\ sent.commit > 0 =>
              /\ sent.reqUpload = 1 /\ sent.put = clips
              /\ \A k \in 1..clips : etags[k] = EtagOf(UploadUrl(calls, k))
        /\ sent.createTask > 0 =>
              /\ sent.commit = 1 /\ downloadURL = DownloadUrl(calls)
        /\ sent.query > 0 =>
              /\ sent.createTask = 1 /\ taskID = TaskId(calls)

C10_Witness ==
    /\ sent.reqUpload = 1 /\ sent.put = 2 /\ sent.commit = 1
    /\ sent.createTask = 1 /\ sent.query = 2

\* C11: within one GetResult call the negotiation, commit and task-creation
\* endpoints are requested at most once each and every entry of upload_urls is
\* PUT at most once; a response to one of these requests that is not accepted
\* makes GetResult return an error, and a call that has returned sends no
\* further request.
C11_SingleShot ==
    /\ [](pc # "idle" =>
            /\ sent.reqUpload <= 1 /\ sent.commit <= 1 /\ sent.createTask <= 1
            /\ \A j, k \in 1..Len(puts) : puts[j].index = puts[k].index => j = k
            /\ reply.out \notin {"", "ok", "etagHeader", "etagBody"} =>
                  pc = "returned" /\ ret.err # NoErr /\ ret.isNil)
    /\ [][(pc = "returned" /\ calls' = calls) => sent' = sent]_vars

\* The commit failed on the network after two parts were uploaded; no task
\* was created.
C11_Witness ==
    /\ pc = "returned" /\ reply = Reply("commitUpload", "netFail", -1)
    /\ sent = [reqUpload |-> 1, put |-> 2, commit |-> 1, createTask |-> 0,
               query |-> 0]
    /\ ret.err.phase = "UploadFailed"

\* C12: an error GetResult returns carries the tag of the phase in which the
\* call's first (and only) failure occurred: UploadFailed when the
\* negotiation, a part PUT or the commit failed, TaskCreationFailed when
\* createTask failed, QueryFailed when the poll loop failed (remote failure,
\* empty or unparsable result, timeout, cancellation).
C12_PhaseTags ==
    (pc = "returned" /\ ret.err # NoErr) =>
        /\ ret.err.phase \in {"UploadFailed", "TaskCreationFailed", "QueryFailed"}
        /\ ret.err.phase = "UploadFailed" <=>
              /\ reply.step \in {"requestUpload", "uploadParts", "commitUpload"}
              /\ reply.out \notin {"ok", "etagHeader", "etagBody"}
        /\ ret.err.phase = "TaskCreationFailed" <=>
              reply.step = "createTask" /\ reply.out # "ok"
        /\ ret.err.phase = "QueryFailed" <=>
              /\ reply = Reply("createTask", "ok", -1)
              /\ ret.err.detail \in {"RemoteTaskFailed", "EmptyResult", "ResultParse",
                                     "PollTimeout", "Canceled"}

\* createTask's response had no task_id.
C12_Witness ==
    /\ pc = "returned" /\ reply = Reply("createTask", "task_id", -1)
    /\ ret = RetErr(Err("TaskCreationFailed", "task_id"))
    /\ sent.commit = 1 /\ sent.query = 0

\* C13: requestUpload checks every expected field of the negotiation response
\* (in_boss_key, resource_id, upload_id, per_size, upload_urls and each of its
\* elements): a response in which one is missing or mistyped makes the call
\* fail with an error naming that field and no part is uploaded, and a call
\* that went on past the negotiation holds every session field as the
\* response gave it.  Stated of the copy of the client a specification runs.
C13_AsClaimed ==
    pc # "idle" =>
        /\ (reply.step = "requestUpload"
              /\ reply.out \in {"in_boss_key", "resource_id", "upload_id", "per_size",
                                "upload_urls", "upload_urls_elem"}) =>
              /\ pc = "returned"
              /\ ret = RetErr(ErrCode("UploadFailed", reply.out, reply.index))
              /\ sent.put = 0 /\ sent.commit = 0
        /\ (sent.put > 0 \/ sent.commit > 0) =>
              /\ inBossKey = BossKey(calls) /\ resourceID = ResourceId(calls)
              /\ uploadID = UploadId(calls) /\ perSize = srv.perSize
              /\ uploadURLs = [k \in 1..srv.nUrls |-> UploadUrl(calls, k)]

\* C14: a commit response without download_url fails the call with the commit
\* error and a task-creation response without task_id fails it with the
\* task-creation error; so the task-creation request carries the download URL
\* of this call's commit and every poll carries the task id of this call's
\* createTask.  Stated of the copy of the client a specification runs.
C14_AsClaimed ==
    pc # "idle" =>
        /\ reply = Reply("commitUpload", "download_url", -1) =>
              pc = "returned" /\ ret = RetErr(Err("UploadFailed", "download_url"))
        /\ reply = Reply("createTask", "task_id", -1) =>
              pc = "returned" /\ ret = RetErr(Err("TaskCreationFailed", "task_id"))
        /\ sent.createTask > 0 =>
              taskBody.set /\ taskBody.resource = DownloadUrl(calls)
        /\ sent.query > 0 => pollTask = TaskId(calls)

\* C15: the k-th PUT of a call (part index k - 1) goes to upload_urls[k - 1]
\* with exactly the bytes [(k-1)*perSize, min(k*perSize, len(FileBinary))) of
\* the file; once the negotiation is accepted, etags holds the etag of each
\* accepted PUT at the part's index and nothing elsewhere; the commit
\* request's Etags is the etags joined by commas in index order.
C15_PartsAndEtags ==
    pc # "idle" =>
        /\ \A k \in 1..Len(puts) :
              LET p == puts[k]
                  lo == (k - 1) * perSize
                  hi == IF k * perSize < Len(FileBinary)
                        THEN k * perSize ELSE Len(FileBinary)
              IN /\ p.index = k - 1 /\ p.url = uploadURLs[k]
                 /\ p.lo = lo /\ p.hi = hi
                 /\ p.body = [j \in 1..(hi - lo) |-> FileBinary[lo + j]]
        /\ part <= Len(puts) /\ Len(puts) <= part + 1
        /\ (reply.step \in {"uploadParts", "commitUpload", "createTask"}
               \/ reply.out = "ok") =>
              /\ Len(etags) = clips
              /\ \A k \in 1..clips :
                    etags[k] = IF k <= part THEN EtagOf(puts[k].url) ELSE EmptyStr
        /\ commitBody.set =>
              /\ part = clips /\ Len(etags) = clips
              /\ LET L == 3
                 IN /\ \A k \in 1..clips : Len(etags[k]) = L
                    /\ commitBody.Etags =
                          [j \in 1..(IF clips = 0 THEN 0 ELSE clips * (L + 1) - 1) |->
                              IF j % (L + 1) = 0 THEN Comma[1]
                              ELSE etags[(j - 1) \div (L + 1) + 1][j % (L + 1)]]

\* A three-byte file in parts of two bytes: two PUTs, two etags, one comma.
C15_Witness ==
    /\ commitBody.set /\ FileBinary = <<1, 2, 3>> /\ perSize = 2 /\ clips = 2
    /\ puts[1].body = <<1, 2>> /\ puts[2].body = <<3>>
    /\ puts[1].url = UploadUrl(1, 1) /\ puts[2].url = UploadUrl(1, 2)
    /\ commitBody.Etags = EtagOf(UploadUrl(1, 1)) \o <<0>> \o EtagOf(UploadUrl(1, 2))

\* C16 as claimed: for a file of S bytes and a part size P from the server, a
\* call that uploaded all its parts uploaded ceil(S/P) of them, the last one
\* covering [floor(S/P)*P, S), and the parts cover every byte of the file
\* exactly once.
C16_AsClaimed ==
    (pc # "idle" /\ commitBody.set /\ perSize > 0) =>
        LET S == Len(FileBinary)
            P == perSize
        IN /\ Len(puts) = (S + P - 1) \div P
           /\ Len(puts) > 0 =>
                 /\ puts[Len(puts)].lo = (S \div P) * P
                 /\ puts[Len(puts)].hi = S
           /\ \A b \in 1..S :
                 \E k \in 1..Len(puts) :
                    /\ puts[k].lo < b /\ b <= puts[k].hi
                    /\ \A j \in 1..Len(puts) :
                          (puts[j].lo < b /\ b <= puts[j].hi) => j = k

\* C16 amended: when the server answers a part size P > 0 and exactly
\* ceil(S/P) upload URLs, a call that uploaded all its parts uploaded
\* ceil(S/P) of them, the last one covering [(ceil(S/P) - 1)*P, S), and the
\* parts carry every byte of the file exactly once.
C16_PartsCoverFile ==
    (pc # "idle" /\ commitBody.set /\ perSize > 0
        /\ clips = (Len(FileBinary) + perSize - 1) \div perSize) =>
        LET S == Len(FileBinary)
            P == perSize
            N == (S + P - 1) \div P
        IN /\ Len(puts) = N
           /\ N > 0 => puts[N].lo = (N - 1) * P /\ puts[N].hi = S
           /\ \A b \in 1..S :
                 \E k \in 1..N :
                    /\ puts[k].lo < b /\ b <= puts[k].hi
                    /\ puts[k].body[b - puts[k].lo] = FileBinary[b]
                    /\ \A j \in 1..N :
                          (puts[j].lo < b /\ b <= puts[j].hi) => j = k

\* Two bytes in parts of one byte: two parts, the last one [1, 2).
C16_Witness ==
    /\ commitBody.set /\ Len(FileBinary) = 2 /\ perSize = 1 /\ clips = 2
    /\ Len(puts) = 2 /\ puts[2].lo = 1 /\ puts[2].hi = 2

\* C17: a part whose PUT fails on the network, or whose response yields no
\* etag from the Etag header or the body's etag field, fails the call with an
\* upload error that carries the part's index; no later part is uploaded and
\* no commit request is sent.
C17_AsClaimed ==
    (pc # "idle" /\ reply.step = "uploadParts" /\ reply.out \in {"netFail", "noEtag"}) =>
        /\ pc = "returned"
        /\ ret.isNil /\ ret.err.phase = "UploadFailed"
        /\ ret.err.code = reply.index
        /\ sent.put = reply.index + 1 /\ sent.commit = 0 /\ sent.createTask = 0

\* C18: makeSegments maps an utterance's start and end, in milliseconds, to
\* the same instants plus 105 ms; the utterance (1000 ms, 3500 ms) gives the
\* segment (1105 ms, 3605 ms), i.e. 1.105 s and 3.605 s.
C18_TimeOffset ==
    (pc = "returned" /\ ret.err = NoErr /\ answer.kind = "state"
        /\ answer.state = 4 /\ answer.result.kind = "json"
        /\ answer.result.payload.utterances = "list") =>
        LET us == answer.result.payload.list
        IN /\ (\A k \in 1..Len(us) : us[k].obj /\ us[k].hasStart /\ us[k].hasEnd) =>
                 /\ Len(ret.segs) = Len(us)
                 /\ \A k \in 1..Len(us) :
                       /\ ret.segs[k].start_time = us[k].start + 105
                       /\ ret.segs[k].end_time = us[k].end + 105
           /\ (Len(us) > 0 /\ us[1] = Utt("a", 1000, 3500)) =>
                 ret.segs[1] = Segment("a", 1105, 3605)

C18_Witness ==
    /\ pc = "returned" /\ answer.result.payload = PayloadTwo
    /\ answer.result.kind = "json"
    /\ ret = RetOk(<<Segment("a", 1105, 3605), Segment("b", 3605, 4105)>>)

\* C19: of an utterances array that mixes well-formed entries with malformed
\* ones (entries that are not objects, objects whose transcript, start_time
\* or end_time is missing or mistyped), makeSegments returns one segment per
\* well-formed entry and none for a malformed one.
C19_AsClaimed ==
    (pc = "returned" /\ ret.err = NoErr /\ answer.kind = "state"
        /\ answer.state = 4 /\ answer.result.kind = "json"
        /\ answer.result.payload.utterances = "list") =>
        LET us == answer.result.payload.list
            good == {k \in 1..Len(us) :
                        us[k].obj /\ us[k].hasText /\ us[k].hasStart /\ us[k].hasEnd}
        IN /\ Len(ret.segs) = Cardinality(good)
           /\ \A j \in 1..Len(ret.segs) :
                 \E k \in good :
                    ret.segs[j] = Segment(us[k].text, us[k].start + 105, us[k].end + 105)

\* C20: a parsed result whose utterances field is missing or is not a list
\* gives no segments and no error: GetResult returns an empty sequence with a
\* nil error after reporting 100 to the callback.
C20_NoUtterancesIsNotFatal ==
    (pc # "idle" /\ answer.kind = "state" /\ answer.state = 4
        /\ answer.result.kind = "json"
        /\ answer.result.payload.utterances # "list") =>
        /\ pc = "returned"
        /\ ret = RetOk(<<>>) /\ ~ret.isNil
        /\ hasCallback => cbLast = 100
        /\ sent.query = i + 1

C20_Witness ==
    /\ pc = "returned" /\ hasCallback /\ cbLast = 100 /\ cbFirst = 20
    /\ answer.result.kind = "json" /\ answer.result.payload = PayloadNotList
    /\ ret.err = NoErr /\ ret.segs = <<>> /\ sent.query = 2

\* C21: a call on a file that differs in exactly one byte from the file of
\* the call before it (same path) has another cache key; it does not return
\* the entry written for the previous content, and with no entry under its
\* own key it runs the pipeline, starting with the upload negotiation.
C21_ContentAddressing ==
    (calls >= 2 /\ pc # "idle" /\ UseCache
        /\ Len(prevFile) = Len(callFile)
        /\ Cardinality({j \in 1..Len(callFile) : prevFile[j] # callFile[j]}) = 1) =>
        /\ cacheKey # prevKey
        /\ cache0[cacheKey].kind # "segments" =>
              (pc = "requestUpload" /\ sent = NoSent) \/ sent.reqUpload = 1

\* The first call cached its result; the second, on the file with its last
\* byte changed, has sent its own negotiation request.
C21_Witness ==
    /\ calls = 2 /\ UseCache /\ prevSave = "ok"
    /\ prevFile = <<1, 2, 3>> /\ callFile = <<1, 2, 0>>
    /\ cache0[prevKey].kind = "segments" /\ sent.reqUpload = 1

\* C22: a call whose cache write failed still returns the mapped segments
\* with a nil error, the callback having been given 100.
C22_CacheWriteFailureIsNotFatal ==
    (pc = "returned" /\ saveHow \in {"failClean", "failPartial"}) =>
        /\ answer.kind = "state" /\ answer.state = 4 /\ answer.result.kind = "json"
        /\ ret = RetOk(makeSegments(answer.result.payload))
        /\ ret.err = NoErr /\ ~ret.isNil /\ Len(ret.segs) > 0
        /\ hasCallback => cbLast = 100

\* The write failed after truncating the file; the call returned its segment.
C22_Witness ==
    /\ pc = "returned" /\ saveHow = "failPartial" /\ hasCallback /\ cbLast = 100
    /\ ret = RetOk(<<Segment("hi", 105, 605)>>)
    /\ cache[cacheKey] = CorruptEntry

\* C23 as claimed: the negotiation body has the fields type = 2, name, size,
\* fileType = "mp3" and modelId = "8"; the commit and task-creation bodies
\* carry modelId = "8"; every poll has the query parameters modelId = 7 and
\* taskId = the task id createTask returned.
C23_AsClaimed ==
    pc # "idle" =>
        /\ sent.reqUpload > 0 =>
              /\ {"type", "name", "size", "fileType", "modelId"} \subseteq DOMAIN reqBody
              /\ reqBody["type"] = 2 /\ reqBody["size"] = Len(callFile)
              /\ reqBody["fileType"] = "mp3" /\ reqBody["modelId"] = "8"
        /\ commitBody.set =>
              "modelId" \in DOMAIN commitBody /\ commitBody["modelId"] = "8"
        /\ taskBody.set =>
              "modelId" \in DOMAIN taskBody /\ taskBody["modelId"] = "8"
        /\ sent.query > 0 =>
              /\ DOMAIN pollQuery = {"modelId", "taskId"}
              /\ pollQuery["modelId"] = "7" /\ pollQuery["taskId"] = TaskId(calls)

\* C23 amended: the negotiation body has the fields type = 2, name, size,
\* ResourceFileType = "mp3" and model_id = "8"; the commit and task-creation
\* bodies carry model_id = "8"; every poll has the query parameters
\* model_id = 7 and task_id = the task id createTask returned.
C23_WireContract ==
    pc # "idle" =>
        /\ sent.reqUpload > 0 =>
              /\ DOMAIN reqBody = {"type", "name", "size", "ResourceFileType", "model_id"}
              /\ reqBody["type"] = 2 /\ reqBody["name"] = "audio.mp3"
              /\ reqBody["size"] = Len(callFile)
              /\ reqBody["ResourceFileType"] = "mp3" /\ reqBody["model_id"] = "8"
        /\ commitBody.set =>
              /\ DOMAIN commitBody =
                    {"set", "InBossKey", "ResourceId", "Etags", "UploadId", "model_id"}
              /\ commitBody["model_id"] = "8"
        /\ taskBody.set =>
              /\ DOMAIN taskBody = {"set", "resource", "model_id"}
              /\ taskBody["model_id"] = "8"
        /\ sent.query > 0 =>
              /\ DOMAIN pollQuery = {"model_id", "task_id"}
              /\ pollQuery["model_id"] = "7" /\ pollQuery["task_id"] = TaskId(calls)

\* The third poll of a call, with every request before it sent.
C23_Witness ==
    /\ sent = [reqUpload |-> 1, put |-> 2, commit |-> 1, createTask |-> 1, query |-> 3]
    /\ reqBody["size"] = 3 /\ commitBody.set /\ taskBody.set
    /\ pollQuery = [model_id |-> "7", task_id |-> TaskId(1)]

\* C24: a poll answered by a network failure, an unreadable body, malformed
\* JSON, a missing data object, a missing or non-numeric state, or a state
\* other than 3 and 4 returns nothing: the iteration sleeps and the loop goes
\* on to the head of the next iteration.  A call whose last answer was such
\* an answer can only have ended at the loop's head, by timeout or
\* cancellation.
C24_NonTerminalAnswers ==
    /\ [][(pc = "pollRequest" /\ pc' # "pollRequest"
              /\ (answer'.kind \in TransientKinds
                     \/ (answer'.kind = "state" /\ answer'.state \notin {3, 4}))) =>
             /\ pc' = "pollCheck" /\ i' = i + 1
             /\ ret' = NoRet /\ lastSleep' >= 1
             /\ cache' = cache]_vars
    /\ []((pc = "returned" /\ ret.err # NoErr /\ sent.query > 0
              /\ (answer.kind \in TransientKinds
                     \/ (answer.kind = "state" /\ answer.state \notin {3, 4}))) =>
             ret.err.detail \in {"PollTimeout", "Canceled"})

\* The second poll was answered with state 2; the loop is at the head of its
\* third iteration.
C24_Witness ==
    /\ pc = "pollCheck" /\ i = 2 /\ sent.query = 2 /\ ret = NoRet
    /\ answer.kind = "state" /\ answer.state = 2

\* C25 as claimed: an iteration n that does not end the loop sleeps 1 s for
\* n <= 20, 2 s for 20 < n <= 50 and 3 s for n > 50, whether its request was
\* answered by a pending state or by a transient error.
C25_AsClaimed ==
    (pc \in {"pollCheck", "pollRequest"} /\ i > 0) =>
        lastSleep = (IF i - 1 <= 20 THEN 1 ELSE IF i - 1 <= 50 THEN 2 ELSE 3)

\* C25 amended: an iteration n whose request was answered by a pending state
\* sleeps 1 s for n <= 20, 2 s for 20 < n <= 50 and 3 s for n > 50; an
\* iteration whose request was answered by a transient error sleeps 1 s
\* whatever n is.
C25_BackOff ==
    (pc \in {"pollCheck", "pollRequest"} /\ i > 0) =>
        lastSleep = (IF answer.kind \in TransientKinds THEN 1
                     ELSE IF i - 1 <= 20 THEN 1 ELSE IF i - 1 <= 50 THEN 2 ELSE 3)

\* Iteration 60 met a network failure and slept one second.
C25_Witness ==
    /\ pc = "pollCheck" /\ i = 61 /\ answer.kind = "netFail" /\ lastSleep = 1

\* C26: a poll iteration that goes on to the next one invokes the callback
\* only if its index is a multiple of 5 and its request was answered by a
\* pending state; the value it reports is 60 + floor(i*39/500) capped at 99,
\* lies in 60..99 and is not below the value reported before it.
C26_PollProgress ==
    [][(pc = "pollRequest" /\ pc' = "pollCheck" /\ cbCount' # cbCount) =>
          /\ i % 5 = 0
          /\ Classify(answer') = "pending"
          /\ cbCount' = cbCount + 1
          /\ cbLast' = (IF 60 + (i * 39) \div 500 > 99 THEN 99
                        ELSE 60 + (i * 39) \div 500)
          /\ cbLast' \in 60..99
          /\ cbLast' >= cbLast]_vars

\* Iteration 495 reported 98 as the hundredth value of a poll loop in which
\* two iterations met transient errors.
C26_Witness ==
    /\ pc = "pollCheck" /\ hasCallback /\ i = 496 /\ faults = 2
    /\ cbLast = 98 /\ cbCount = 103

\* C27: within a call the percentages given to the callback never decrease
\* and come one at a time in the order 20, 50, 60, then the poll loop's values
\* (each in 60..99), then 100 at the successful return; a successful call on
\* a cache miss has reported 20 first, 100 last and at least four values, a
\* cache hit the single value 100; without a callback nothing is reported and
\* the call returns the same result from the same requests.
C27_ProgressSequence ==
    /\ [][(pc # "idle" /\ calls' = calls) =>
             /\ cbLast' >= cbLast
             /\ cbCount' \in {cbCount, cbCount + 1}
             /\ cbCount' = cbCount + 1 =>
                   /\ hasCallback
                   /\ cbLast' = CASE cbCount' = 2 -> 50
                                  [] cbCount' = 3 -> 60
                                  [] pc' = "returned" -> 100
                                  [] OTHER -> cbLast'
                   /\ (cbCount' > 3 /\ pc' # "returned") => cbLast' \in 60..99
                   /\ pc' = "returned" => ret'.err = NoErr]_vars
    /\ [](pc = "returned" /\ ret.err = NoErr =>
             /\ hasCallback =>
                   /\ cbLast = 100
                   /\ IF UseCache /\ cache0[cacheKey].kind = "segments"
                      THEN cbCount = 1 /\ cbFirst = 100
                      ELSE cbFirst = 20 /\ cbCount >= 4
             /\ ~hasCallback => cbCount = 0 /\ cbFirst = -1 /\ cbLast = -1
             /\ IF UseCache /\ cache0[cacheKey].kind = "segments"
                THEN ret = RetOk(cache0[cacheKey].segs) /\ sent = NoSent
                ELSE /\ ret = RetOk(makeSegments(answer.result.payload))
                     /\ sent.reqUpload = 1 /\ sent.commit = 1
                     /\ sent.createTask = 1 /\ sent.query = i + 1)

\* The job finished at the eighth poll: the callback was given 20, 50, 60, the
\* poll loop's 60 of iterations 0 and 5, and 100.
C27_Witness ==
    /\ pc = "returned" /\ ret.err = NoErr /\ hasCallback /\ i = 7 /\ faults = 0
    /\ cbFirst = 20 /\ cbLast = 100 /\ cbCount = 6

\* C28: when the part PUTs complete in any order and each etag is stored at
\* its part's index, the Etags string of the commit is the one the in-order
\* upload builds: the etags of parts 0, 1, ... in index order, joined by
\* commas.
C28_EtagsByIndex ==
    pc = "commitUpload" =>
        /\ Len(puts) = clips /\ Len(etags) = clips
        /\ \A j \in 1..Len(puts) : etags[puts[j].index + 1] = EtagOf(puts[j].url)
        /\ \A k \in 1..clips : etags[k] = EtagOf(UploadUrl(calls, k))
        /\ commitBody.Etags =
              JoinFrom([k \in 1..clips |-> EtagOf(UploadUrl(calls, k))], 1)

\* Three parts completed last part first; the commit string is in index order.
C28_Witness ==
    /\ pc = "commitUpload" /\ clips = 3
    /\ puts[1].index = 2 /\ puts[2].index = 1 /\ puts[3].index = 0
    /\ commitBody.Etags = EtagOf(UploadUrl(1, 1)) \o Comma \o EtagOf(UploadUrl(1, 2))
                             \o Comma \o EtagOf(UploadUrl(1, 3))

\* C29: a call given an already canceled context on a cache miss goes through
\* the negotiation, every part PUT, the commit and the task creation as long
\* as each is accepted, and then returns the Canceled error from the poll loop
\* without sending a poll; no step before the poll loop returns Canceled; on a
\* cache hit the canceled context changes nothing: the cached segments are
\* returned and nothing is sent.
C29_CancelOnlyAtPoll ==
    /\ (pc = "returned" /\ callCtx = "canceled"
           /\ ~(UseCache /\ cache0[cacheKey].kind = "segments")) =>
          \/ /\ ret.err.phase \in {"UploadFailed", "TaskCreationFailed"}
             /\ reply.out # "ok" /\ ret.err.detail # "Canceled"
          \/ /\ ret = RetErr(Err("QueryFailed", "Canceled"))
             /\ sent.query = 0 /\ sent.reqUpload = 1
             /\ sent.put = clips /\ Len(puts) = clips
             /\ \A k \in 1..clips : puts[k].index = k - 1
             /\ sent.commit = 1 /\ sent.createTask = 1
    /\ (pc = "returned" /\ ret.err.detail = "Canceled") =>
          ret.err.phase = "QueryFailed" /\ sent.createTask = 1
    /\ (pc # "idle" /\ callCtx = "canceled"
           /\ UseCache /\ cache0[cacheKey].kind = "segments") =>
          /\ pc = "returned" /\ ret = RetOk(cache0[cacheKey].segs)
          /\ sent = NoSent

\* The call was given a canceled context: both parts were PUT, the commit and
\* the task creation were sent, and no poll.
C29_Witness ==
    /\ pc = "returned" /\ callCtx = "canceled" /\ ret.err.detail = "Canceled"
    /\ sent = [reqUpload |-> 1, put |-> 2, commit |-> 1, createTask |-> 1, query |-> 0]

C31_AsClaimed ==
    [](InCall =>
          <>(/\ pc = "returned" /\ ret.set
             /\ \/ ret.err = NoErr
                \/ ret.err.phase \in {"UploadFailed", "TaskCreationFailed"}
                \/ /\ ret.err.phase = "QueryFailed"
                   /\ ret.err.detail \in {"RemoteTaskFailed", "EmptyResult",
                                          "ResultParse", "PollTimeout", "Canceled"}))

\* The slice of a part that starts past the end of the file has aborted the
\* process in the middle of a call.
C31_Aborted ==
    /\ pc = "panic" /\ ret = NoRet /\ sent.reqUpload = 1 /\ sent.commit = 0

\* C32: a call never returns both a result and an error: a return with an
\* error (cancellation and poll timeout included) carries a nil segment
\* slice, and a return with a non-nil slice carries a nil error; segments are
\* returned only by a cache hit or by a poll answered state 4 with a parsable
\* result.
C32_ResultOrError ==
    pc = "returned" =>
        /\ ret.set
        /\ ret.err # NoErr => ret.isNil /\ ret.segs = <<>>
        /\ ~ret.isNil => ret.err = NoErr
        /\ ret.err = NoErr =>
              \/ UseCache /\ cache0[cacheKey].kind = "segments"
              \/ Classify(answer) = "done"
        /\ (sent.query > 0 /\ Classify(answer) # "done") => ret.err # NoErr

\* The poll loop ran out of iterations: an error and a nil slice.
C32_Witness ==
    /\ pc = "returned" /\ ret.err.detail = "PollTimeout" /\ ret.isNil
    /\ sent.query = 500

\* C33 as claimed: after a negotiation answer that requestUpload accepted,
\* every part index k below the number of upload URLs has
\* k*per_size <= min((k+1)*per_size, len(file)), and no part upload aborts the
\* process.
C33_AsClaimed ==
    /\ pc # "panic"
    /\ (pc \in {"uploadParts", "commitUpload"} /\ reply.step # "createTask") =>
          \A k \in 0..(clips - 1) :
              k * perSize <= (IF (k + 1) * perSize > Len(FileBinary)
                              THEN Len(FileBinary) ELSE (k + 1) * perSize)

\* A 1-byte file, per_size = 2 and two upload URLs: part 0 was PUT as the whole
\* file, and the slice [2:1] of part 1 aborted the process.
C33_Aborted ==
    /\ pc = "panic" /\ Len(FileBinary) = 1 /\ perSize = 2 /\ clips = 2
    /\ part = 1 /\ Len(puts) = 1 /\ puts[1].lo = 0 /\ puts[1].hi = 1

\* C34: with caching disabled a call starts with the upload negotiation even
\* when a loadable entry exists under its key, returns segments only from a
\* poll of its own, never attempts a cache write, and leaves every cache
\* entry as it found it, whether it succeeds or fails.
C34_CacheDisabled ==
    (pc # "idle" /\ ~UseCache) =>
        /\ cache = cache0 /\ saveHow = "none"
        /\ (pc = "requestUpload" /\ sent = NoSent) \/ sent.reqUpload = 1
        /\ (pc = "returned" /\ ret.err = NoErr) =>
              /\ sent.query >= 1 /\ sent.createTask = 1 /\ sent.commit = 1
              /\ ret = RetOk(makeSegments(answer.result.payload))

\* A loadable entry existed under the key; the call ran the pipeline, returned
\* other segments than the entry's and left the entry alone.
C34_Witness ==
    /\ pc = "returned" /\ ~UseCache /\ cache0[cacheKey] = StoredEntry
    /\ ret.err = NoErr /\ Len(ret.segs) > 0 /\ ret.segs # StoredEntry.segs
    /\ sent.query = 1 /\ cache[cacheKey] = StoredEntry

\* C35 as claimed: two calls on instances that differ in path or in file
\* bytes have different cache keys, and the second does not return from the
\* entry the first wrote.
C35_AsClaimed ==
    (calls >= 2 /\ pc # "idle" /\ <<prevPath, prevFile>> # <<callPath, callFile>>) =>
        /\ cacheKey # prevKey
        /\ (prevSave = "ok" /\ pc = "returned" /\ ret.err = NoErr) => sent.query > 0

\* The instance on the longer path with the shorter file returned, without a
\* request, what the call on the shorter path with the longer file had cached.
C35_Collision ==
    /\ calls = 2 /\ pc = "returned"
    /\ prevPath = AudioPath /\ prevFile = FileA
    /\ callPath = LongerPath /\ callFile = ShorterFile
    /\ cacheKey = prevKey /\ prevSave = "ok"
    /\ sent = NoSent /\ ret = prev /\ Len(ret.segs) > 0

\* C36 as claimed: with caching enabled and an entry under the call's key
\* that cannot be read or parsed, the call runs the network pipeline, fails
\* only with an error of the pipeline, and when it returns at least one
\* segment the entry holds the returned segments.
C36_AsClaimed ==
    (pc # "idle" /\ UseCache /\ cache0[cacheKey] = CorruptEntry) =>
        /\ (pc = "requestUpload" /\ sent = NoSent) \/ sent.reqUpload = 1
        /\ (pc = "returned" /\ ret.err # NoErr) =>
              ret.err.phase \in {"UploadFailed", "TaskCreationFailed", "QueryFailed"}
        /\ (pc = "returned" /\ ret.err = NoErr /\ Len(ret.segs) > 0) =>
              cache[cacheKey] = FileEntry(ret.segs)

\* C36 amended: ... when it returns at least one segment it attempts one
\* cache write, and the entry holds the returned segments if that write
\* succeeded; if the write failed the entry is still one that cannot be
\* parsed, and the call succeeds all the same.
C36_CorruptIsMiss ==
    (pc # "idle" /\ UseCache /\ cache0[cacheKey] = CorruptEntry) =>
        /\ (pc = "requestUpload" /\ sent = NoSent) \/ sent.reqUpload = 1
        /\ (pc = "returned" /\ ret.err # NoErr) =>
              /\ ret.err.phase \in {"UploadFailed", "TaskCreationFailed", "QueryFailed"}
              /\ cache = cache0
        /\ (pc = "returned" /\ ret.err = NoErr) =>
              /\ sent.query >= 1
              /\ ret.segs = makeSegments(answer.result.payload)
              /\ Len(ret.segs) > 0 =>
                    /\ saveHow \in SaveOutcomes
                    /\ cache[cacheKey] = (IF saveHow = "ok" THEN FileEntry(ret.segs)
                                          ELSE CorruptEntry)
              /\ Len(ret.segs) = 0 => cache = cache0

\* The entry could not be parsed; the call polled once, returned two segments
\* and wrote them over the entry.
C36_Witness ==
    /\ pc = "returned" /\ UseCache /\ cache0[cacheKey] = CorruptEntry
    /\ sent.query = 1 /\ Len(ret.segs) = 2 /\ saveHow = "ok"
    /\ cache[cacheKey] = FileEntry(ret.segs)

\* C37 as claimed: in a call that is not the first, the commit request, the
\* task-creation request and every poll carry the identifiers the provider
\* gave during this call (boss key, resource id, upload id, etags, download
\* URL, task id), never one it gave during an earlier call.  Stated of the
\* copy of the client a specification runs.
C37_AsClaimed ==
    (calls >= 2 /\ pc # "idle") =>
        LET earlier == 1..(calls - 1)
        IN /\ sent.commit > 0 =>
                 /\ commitBody.InBossKey \notin {BossKey(c) : c \in earlier}
                 /\ commitBody.ResourceId \notin {ResourceId(c) : c \in earlier}
                 /\ commitBody.UploadId \notin {UploadId(c) : c \in earlier}
                 /\ commitBody.Etags =
                       JoinFrom([k \in 1..clips |-> EtagOf(UploadUrl(calls, k))], 1)
           /\ sent.createTask > 0 =>
                 taskBody.resource \notin {DownloadUrl(c) : c \in earlier}
           /\ sent.query > 0 => pollTask \notin {TaskId(c) : c \in earlier}

\* The second call on an instance polled the task id of the first call: the
\* task-creation response of the second call had no task_id.
C37_StaleTaskId ==
    /\ calls = 2 /\ variant = "main" /\ reply = Reply("createTask", "task_id", -1)
    /\ sent.query = 1 /\ pollTask = TaskId(1)
    /\ taskBody.resource = DownloadUrl(2)

\* C38 as claimed: the configuration a summarize or chat request works with
\* is one whole version of the configuration, the one before or the one
\* after an update handled at the same time: its four fields belong to the
\* same version.
C38_AsClaimed ==
    pcSummarize = "summarize" =>
        \E n \in 0..MaxUpdates : aiSummarizer = ConfigOf(n)

\* The request copied the API key before the update stored it and the API URL
\* after: it works with the key of the old configuration and the URL of the
\* new one.
C38_Mixture ==
    /\ pcSummarize = "summarize"
    /\ aiSummarizer["APIKey"] = 0 /\ aiSummarizer["APIURL"] = 1
    /\ aiConfig = ConfigOf(1)

\* C39 as claimed: the mock checks the context before each of its five steps
\* and a canceled one ends the call with the context error, no segments, no
\* cache write and no callback of 100; otherwise it reports 20, 50, 60, 75, 90,
\* 100 in that order and returns its three segments; with caching enabled the
\* call after a successful one on the same file returns the same segments
\* with the single callback value 100.
C39_AsClaimed ==
    /\ (pc = "mockStep" /\ hasCallback) =>
          cbCount = i /\ (i > 0 => cbLast = <<20, 50, 60, 75, 90>>[i])
    /\ (pc = "returned" /\ ret.err # NoErr) =>
          /\ ret = RetErr(Err("none", "Canceled")) /\ i < 5
          /\ cache = cache0 /\ saveHow = "none"
          /\ hasCallback => cbCount = i /\ cbLast # 100
    /\ (pc = "returned" /\ ret.err = NoErr
           /\ ~(UseCache /\ cache0[cacheKey].kind = "segments")) =>
          /\ Len(ret.segs) = 3 /\ i = 5
          /\ hasCallback => cbCount = 6 /\ cbFirst = 20 /\ cbLast = 100
    /\ (calls >= 2 /\ pc # "idle" /\ UseCache /\ prevKey = cacheKey
           /\ prev.set /\ prev.err = NoErr) =>
          /\ pc = "returned" /\ ret = prev
          /\ hasCallback => cbCount = 1 /\ cbLast = 100

\* C39 amended: ... with caching enabled the call saves the segments, dropping
\* the error of a failed write; when the write succeeded the call after it on
\* the same file returns the same segments with the single callback value
\* 100, and when it failed that call runs the five steps again.
C39_MockRun ==
    /\ [][(pc = "mockStep" /\ i < 5 /\ ctx = "canceled") =>
             /\ pc' = "returned" /\ ret' = RetErr(Err("none", "Canceled"))
             /\ cbCount' = cbCount /\ cbLast' = cbLast
             /\ cache' = cache]_vars
    /\ []((pc = "mockStep" /\ hasCallback) =>
             cbCount = i /\ (i > 0 => cbLast = <<20, 50, 60, 75, 90>>[i]))
    /\ []((pc = "mockStep" \/ (pc = "returned" /\ ret.err # NoErr)) =>
             cache = cache0 /\ saveHow = "none")
    /\ []((pc = "returned" /\ ret.err # NoErr) =>
             /\ ret = RetErr(Err("none", "Canceled")) /\ i < 5
             /\ ret.isNil /\ ret.segs = <<>>
             /\ hasCallback => cbCount = i /\ cbLast # 100)
    /\ []((pc = "returned" /\ ret.err = NoErr
              /\ ~(UseCache /\ cache0[cacheKey].kind = "segments")) =>
             /\ ret = RetOk(<<Segment("welcome", 500, 3200),
                              Segment("test audio", 3500, 7100),
                              Segment("by timestamp", 7500, 10800)>>)
             /\ i = 5
             /\ hasCallback => cbCount = 6 /\ cbFirst = 20 /\ cbLast = 100
             /\ IF UseCache
                THEN /\ saveHow \in SaveOutcomes
                     /\ saveHow = "ok" => cache[cacheKey] = FileEntry(ret.segs)
                ELSE saveHow = "none" /\ cache = cache0)
    /\ []((calls >= 2 /\ pc # "idle" /\ UseCache /\ prevKey = cacheKey
              /\ prev.set /\ prev.err = NoErr /\ prevSave \in {"none", "ok"}) =>
             /\ pc = "returned" /\ ret = prev
             /\ hasCallback => cbCount = 1 /\ cbLast = 100)
    /\ []((calls >= 2 /\ pc = "returned" /\ ret.err = NoErr /\ prevKey = cacheKey
              /\ prev.set /\ prev.err = NoErr
              /\ prevSave \in {"failClean", "failPartial"}) =>
             /\ i = 5 /\ ret = prev
             /\ hasCallback => cbCount = 6)

\* The first call ran its five steps and saved its segments; the second call
\* returned them from the cache with the one callback of 100.
C39_Witness ==
    /\ calls = 2 /\ pc = "returned" /\ UseCache /\ hasCallback
    /\ prevKey = cacheKey /\ prevSave = "ok" /\ Len(prev.segs) = 3
    /\ ret = prev /\ cbCount = 1 /\ cbFirst = 100 /\ cbLast = 100

====
